---- MODULE Spec2Model ----
(***************************************************************************)
(* Historical versioning and diffing of tracked entities (sapling).        *)
(*                                                                         *)
(* Two tracked entity types are modelled: "A", and "B" which holds a       *)
(* VersionedForeignKey a -> A.  Both have the fields id (AutoField, the    *)
(* primary key), name (CharField, unique) and title (CharField).  The      *)
(* history store holds one Version row per logged mutation.                *)
(*                                                                         *)
(* The store is single-threaded: every write takes its history_date from   *)
(* a clock that has advanced since the write before it.  The unique field  *)
(* of a row is set when the row is created and is not changed.  Foreign    *)
(* keys are not enforced by the store; a delete takes the rows that        *)
(* reference the deleted row with it and logs each of them.                *)
(*                                                                         *)
(* The declaration of the types has two variants that a run fixes at its   *)
(* start: B.a may be a OneToOneField (a VersionedForeignKey with a unique  *)
(* column), and A may declare a many-to-many field to B.  Spec runs the    *)
(* store with neither; the specifications of Version instances run both.   *)
(***************************************************************************)
EXTENDS Integers, Sequences, FiniteSets, TLC

\* Number of operations after which no further operation starts.
MaxClock == 5

\* Number of operations on Version instances in a run, and the Version
\* instances a run can hold at a time.
MaxOps == 5
Slots == {1, 2}

\* Tracked entity types, the unique names and the titles rows are given.
Types == {"A", "B"}
Names == [A |-> {"a1"}, B |-> {"b1", "b2"}]
Titles == {"Home", "Welcome"}

\* constants.py: the change types of TYPE_CHOICES.
TYPE_ADDED == "created"
TYPE_UPDATED == "changed"
TYPE_DELETED == "deleted"
TYPE_REVERTED == "reverted"
\* An instance whose _history_type attribute was never set.
TYPE_UNSET == "unset"

\* The value of a foreign key column of a type that has none.
None == 0

VARIABLES
    live,       \* the live rows of both tables
    history,    \* the Version rows of both history tables
    clock,      \* datetime.datetime.now, one tick per recorded Version
    nextPk,     \* the AutoField sequence of each live table
    nextHid,    \* the AutoField sequence of history_id
    last,       \* the operation that led to this state, with its arguments
    registry,   \* Registry._registry: type -> diff util
    lookup,     \* the last call of get_diff_util: its argument and outcome
    schema,     \* how the types are declared: one_to_one, m2m
    inst,       \* the Version instances built so far, by slot
    descriptor, \* HistoricalMetaInfo.instance of each history class
    held,       \* the history_info object a caller keeps, and whose it was
    io,         \* the last operation on a Version instance and its outcome
    modeldiff   \* a BaseModelDiff instance and what its methods returned

vars == <<live, history, clock, nextPk, nextHid, last, registry, lookup,
          schema, inst, descriptor, held, io, modeldiff>>

\* What the store and the registry leave alone.
instVars == <<schema, inst, descriptor, held, io, modeldiff>>

-----------------------------------------------------------------------------
(* Rows and Versions *)

Row(t, id, name, title, a) ==
    [type |-> t, id |-> id, name |-> name, title |-> title, a_id |-> a]

\* The Version row written for instance m: a copy of every field of m plus
\* the audit fields of get_history_fields.
create_historical_record(m, htype, rev, hid, date) ==
    [history_id |-> hid, history_date |-> date, history_type |-> htype,
     history_reverted_to_version |-> rev,
     type |-> m.type, id |-> m.id, name |-> m.name, title |-> m.title,
     a_id |-> m.a_id]

\* HistoricalObjectDescriptor.__get__: the live-model instance rebuilt from
\* the Version's copied fields.
_object(hm) == Row(hm.type, hm.id, hm.name, hm.title, hm.a_id)

\* The fields of a type with a uniqueness constraint other than the pk.
UniqueFields(t) == {"name"}

unique_fields_of(m) == [f \in UniqueFields(m.type) |-> m[f]]

\* m.__class__.objects.filter(**unique_fields)
objects_filter(t, uf) ==
    {r \in live : r.type = t /\ \A f \in DOMAIN uf : r[f] = uf[f]}

\* obj.history: the Versions of the entity obj is an instance of.  Identity
\* is anchored by the uniqueness fields, by the pk for a type without any.
HistoryOf(H, obj) ==
    LET uf == unique_fields_of(obj)
    IN  {v \in H : /\ v.type = obj.type
                   /\ IF DOMAIN uf # {}
                      THEN \A f \in DOMAIN uf : v[f] = uf[f]
                      ELSE v.id = obj.id}

Max(S) == CHOOSE x \in S : \A y \in S : y <= x

-----------------------------------------------------------------------------
(* The store: save and delete of a live instance *)

RowOf(L, m) == {r \in L : r.type = m.type /\ r.id = m.id}

\* A unique constraint refuses a second row with the same unique fields,
\* and the unique column of a OneToOneField a second row with the same
\* target.
UniqueViolation(L, m) ==
    \E r \in L : /\ r.type = m.type
                 /\ r.id # m.id
                 /\ \/ \A f \in UniqueFields(m.type) : r[f] = m[f]
                    \/ schema.one_to_one /\ m.type = "B" /\ r.a_id = m.a_id

\* The rows after m.save(): an update of the row with m's pk, else an insert.
SaveRows(L, m) == (L \ RowOf(L, m)) \cup {m}

\* The change type recorded by a save.
SaveType(L, m, history_type) ==
    IF history_type = TYPE_REVERTED THEN TYPE_REVERTED
    ELSE IF RowOf(L, m) # {} THEN TYPE_UPDATED ELSE TYPE_ADDED

\* The live rows that a delete of m takes with it: the B rows that point at
\* a deleted A row go first, in pk order.
Dependents(L, m) ==
    IF m.type = "A" THEN {r \in L : r.type = "B" /\ r.a_id = m.id} ELSE {}

RECURSIVE InPkOrder(_)
InPkOrder(S) ==
    IF S = {} THEN <<>>
    ELSE LET r == CHOOSE x \in S : \A y \in S : x.id <= y.id
         IN  <<r>> \o InPkOrder(S \ {r})

\* The Versions a delete of m records: one for each dependent row, then one
\* for m itself, which carries reverted_to_version.
DeleteVersions(L, m, rev, hid, date) ==
    LET deps == InPkOrder(Dependents(L, m))
        n == Len(deps)
    IN  {create_historical_record(deps[i], TYPE_DELETED, None,
                                  hid + i - 1, date + i - 1) : i \in 1..n}
        \cup {create_historical_record(m, TYPE_DELETED, rev, hid + n, date + n)}

DeleteRows(L, m) == (L \ RowOf(L, m)) \ Dependents(L, m)

-----------------------------------------------------------------------------
(* Plain operations on live entities *)

\* The record of an operation: its name, for a revert the history_id of the
\* Version and the two flags, the pk the instance was saved or deleted with,
\* the number of Versions pruned and how the call ended.
Last(op, hid, dnv, track, pk, pruned, result) ==
    [op |-> op, hid |-> hid, dnv |-> dnv, track |-> track, pk |-> pk,
     pruned |-> pruned, result |-> result]

Create(t, name, title, a) ==
    /\ clock <= MaxClock
    /\ LET m == Row(t, nextPk[t], name, title, a)
       IN  /\ ~UniqueViolation(live, m)
           /\ live' = SaveRows(live, m)
           /\ history' = history \cup
                {create_historical_record(m, SaveType(live, m, TYPE_UNSET), None,
                                          nextHid, clock)}
           /\ last' = Last("create", 0, FALSE, TRUE, m.id, 0, "ok")
    /\ nextPk' = [nextPk EXCEPT ![t] = @ + 1]
    /\ nextHid' = nextHid + 1
    /\ clock' = clock + 1
    /\ UNCHANGED <<registry, lookup>>
    /\ UNCHANGED instVars

Change(r, title, a) ==
    /\ clock <= MaxClock
    /\ r \in live
    /\ LET m == [r EXCEPT !.title = title, !.a_id = a]
       IN  /\ m # r
           /\ live' = SaveRows(live, m)
           /\ history' = history \cup
                {create_historical_record(m, SaveType(live, m, TYPE_UNSET), None,
                                          nextHid, clock)}
           /\ last' = Last("change", 0, FALSE, TRUE, m.id, 0, "ok")
    /\ nextHid' = nextHid + 1
    /\ clock' = clock + 1
    /\ UNCHANGED <<nextPk, registry, lookup>>
    /\ UNCHANGED instVars

Delete(r) ==
    /\ clock <= MaxClock
    /\ r \in live
    /\ LET new == DeleteVersions(live, r, None, nextHid, clock)
       IN  /\ live' = DeleteRows(live, r)
           /\ history' = history \cup new
           /\ nextHid' = nextHid + Cardinality(new)
           /\ clock' = clock + Cardinality(new)
    /\ last' = Last("delete", 0, FALSE, TRUE, r.id, 0, "ok")
    /\ UNCHANGED <<nextPk, registry, lookup>>
    /\ UNCHANGED instVars

-----------------------------------------------------------------------------
(* The diff util registry, and the model diff *)

\* _meta.fields of a tracked type, in declaration order: name and class.
Fields(t) ==
    LET own == << [name |-> "id", class |-> "AutoField"],
                  [name |-> "name", class |-> "CharField"],
                  [name |-> "title", class |-> "CharField"] >>
    IN  IF t = "B"
        THEN Append(own, [name |-> "a", class |-> "VersionedForeignKey",
                          to |-> "A"])
        ELSE own

\* The column a field is stored in.
attname(field) ==
    IF field.class = "VersionedForeignKey" THEN "a_id" ELSE field.name

\* cls.__base__ of the classes a lookup can meet.  object.__base__ is the
\* value None, which has no __base__ attribute.
Base ==
    [object |-> "None",
     Model |-> "object", A |-> "Model", B |-> "Model",
     Field |-> "object", AutoField |-> "Field", CharField |-> "Field",
     TextField |-> "Field", FileField |-> "Field", ImageField |-> "FileField",
     RelatedField |-> "object", ForeignKey |-> "RelatedField",
     VersionedForeignKey |-> "ForeignKey"]

Classes == DOMAIN Base

\* Lines 679-682: the diff utils registered when the module is imported.
BuiltinRegistry ==
    [CharField |-> "TextFieldDiff", TextField |-> "TextFieldDiff",
     FileField |-> "FileFieldDiff", ImageField |-> "ImageFieldDiff"]

\* Line 580.
register(reg, model_or_field, diff_util) ==
    [c \in DOMAIN reg \cup {model_or_field} |->
        IF c = model_or_field THEN diff_util ELSE reg[c]]

\* Lines 582-598.  The result is the diff util, or the exception raised.
RECURSIVE get_diff_util(_, _)
get_diff_util(reg, model_or_field) ==
    IF model_or_field \in DOMAIN reg THEN reg[model_or_field]
    ELSE IF model_or_field = "ForeignKey" THEN "BaseModelDiff"
    ELSE IF model_or_field = "Model" THEN "BaseModelDiff"
    ELSE IF model_or_field = "Field" THEN "BaseFieldDiff"
    ELSE IF model_or_field \notin DOMAIN Base THEN "AttributeError"
    ELSE IF Base[model_or_field] # "object"
         THEN get_diff_util(reg, Base[model_or_field])
    ELSE "DiffUtilNotFound"

NoLookup == [type |-> "none", result |-> "none"]

\* The classes and diff utils the registry operations are called with.
RegisterClasses == {"object", "Model", "Field", "ForeignKey", "A", "CharField"}
DiffUtils == {"BaseModelDiff", "BaseFieldDiff", "TextFieldDiff"}

\* registry.register(model_or_field, diff_util)
Register(model_or_field, diff_util) ==
    /\ registry' = register(registry, model_or_field, diff_util)
    /\ lookup' = NoLookup
    /\ UNCHANGED <<live, history, clock, nextPk, nextHid, last>>
    /\ UNCHANGED instVars

\* registry.get_diff_util(model_or_field)
GetDiffUtil(model_or_field) ==
    /\ lookup' = [type |-> model_or_field,
                  result |-> get_diff_util(registry, model_or_field)]
    /\ UNCHANGED <<live, history, clock, nextPk, nextHid, last, registry>>
    /\ UNCHANGED instVars

Exceptions == {"DiffUtilNotFound", "AttributeError", "DoesNotExist"}

\* getattr(model, field.name): the value of a plain field, the related live
\* row of a foreign key.
FieldValue(model, field) ==
    IF field.class = "VersionedForeignKey"
    THEN LET rows == {r \in live : r.type = field.to /\ r.id = model.a_id}
         IN  IF rows = {} THEN [raised |-> "DoesNotExist"]
             ELSE [raised |-> "none", value |-> CHOOSE r \in rows : TRUE]
    ELSE [raised |-> "none", value |-> model[field.name]]

\* Lines 67-78, 276-277 and 540-541: the field diffs are None exactly when
\* the two values are equal.
FieldDiffIsNone(field1, field2) == field1 = field2

\* Lines 156-168 over lines 196-233: the result of BaseModelDiff.as_dict(),
\* as the names of the fields that differ (keys = {} stands for None), or
\* the exception raised on the way.  excludes is the class attribute.
RECURSIVE BaseModelDiff_as_dict(_, _, _, _)
BaseModelDiff_as_dict(reg, model1, model2, excludes) ==
    LET fs == Fields(model1.type)
        util == [i \in DOMAIN fs |-> get_diff_util(reg, fs[i].class)]
        compared == {i \in DOMAIN fs : /\ fs[i].class # "AutoField"
                                       /\ fs[i].name \notin excludes}
        v1 == [i \in compared |-> FieldValue(model1, fs[i])]
        v2 == [i \in compared |-> FieldValue(model2, fs[i])]
        differs(i) ==
            IF util[i] = "BaseModelDiff"
            THEN BaseModelDiff_as_dict(reg, v1[i].value, v2[i].value,
                                       {}).keys # {}
            ELSE ~FieldDiffIsNone(v1[i].value, v2[i].value)
    IN  IF \E i \in DOMAIN fs : util[i] \in Exceptions
        THEN [raised |-> CHOOSE e \in Exceptions :
                            \E i \in DOMAIN fs : util[i] = e,
              keys |-> {}]
        ELSE IF \E i \in compared :
                   v1[i].raised # "none" \/ v2[i].raised # "none"
        THEN [raised |-> "DoesNotExist", keys |-> {}]
        ELSE [raised |-> "none",
              keys |-> {fs[i].name : i \in {j \in compared : differs(j)}}]

\* Lines 670-675: diff(object1, object2).as_dict(); a Version is replaced by
\* the instance rebuilt from it.
diff_as_dict(reg, object1, object2) ==
    LET o1 == IF "history_id" \in DOMAIN object1 THEN _object(object1)
              ELSE object1
        o2 == IF "history_id" \in DOMAIN object2 THEN _object(object2)
              ELSE object2
        diff_util == get_diff_util(reg, o1.type)
    IN  IF diff_util \in Exceptions
        THEN [raised |-> diff_util, keys |-> {}]
        ELSE BaseModelDiff_as_dict(reg, o1, o2, {})

-----------------------------------------------------------------------------
(* BaseModelDiff instances *)

\* A diff that is None.
NoDiff == [kind |-> "None"]

\* Line 154: _diff is None until get_diff has run.
NotComputed == [computed |-> FALSE, diff |-> <<>>]

\* Lines 142-154: a BaseModelDiff subclass instance.  fields.given is
\* whether the class sets fields, fields.list its entries: a name with
\* diff_class "" or a (name, diff class) pair.  got and dicts keep what
\* get_diff and as_dict returned, seen the two instances as they were when
\* the diff was computed, after the number of calls since model1 was
\* assigned to.
BaseModelDiff___init__(model1, model2, fields, excludes) ==
    [model1 |-> model1, model2 |-> model2, fields |-> fields,
     excludes |-> excludes, _diff |-> NotComputed,
     got |-> <<>>, dicts |-> <<>>,
     seen |-> [model1 |-> model1, model2 |-> model2], mutated |-> FALSE,
     after |-> 0]

NoModelDiff ==
    BaseModelDiff___init__(Row("A", 0, "", "", None), Row("A", 0, "", "", None),
                           [given |-> FALSE, list |-> <<>>], {})

\* model._meta.get_field(name)
get_field(t, name) ==
    LET fs == Fields(t)
    IN  fs[CHOOSE i \in DOMAIN fs : fs[i].name = name]

\* Lines 206-209: 'if self.fields' is false for None and for an empty tuple.
diff_fields(self) ==
    IF self.fields.given /\ self.fields.list # <<>>
    THEN self.fields.list
    ELSE LET fs == Fields(self.model1.type)
         IN  [i \in DOMAIN fs |-> [name |-> fs[i].name, diff_class |-> ""]]

\* Lines 211-218: the diff class of each field named; a later entry for a
\* field replaces an earlier one.
diff_utils(reg, self) ==
    LET df == diff_fields(self)
    IN  [n \in {df[i].name : i \in DOMAIN df} |->
            LET i == Max({j \in DOMAIN df : df[j].name = n})
            IN  IF df[i].diff_class = ""
                THEN get_diff_util(reg, get_field(self.model1.type, n).class)
                ELSE df[i].diff_class]

\* A selection that only leaves out the AutoFields.
skipped_auto_only(self, field) == field.class = "AutoField"

\* Lines 221-225: the fields that get no field diff.
skipped(self, field) ==
    field.class = "AutoField" \/ field.name \in self.excludes

\* Lines 203-230: the field diffs built by get_diff, by field name; each
\* holds its class and the two values it was built with.
BaseModelDiff_compute(reg, self) ==
    LET utils == diff_utils(reg, self)
        t == self.model1.type
    IN  [n \in {x \in DOMAIN utils : ~skipped(self, get_field(t, x))} |->
            [util |-> utils[n],
             field1 |-> FieldValue(self.model1, get_field(t, n)).value,
             field2 |-> FieldValue(self.model2, get_field(t, n)).value]]

\* Lines 196-233: get_diff, as the diff returned and the _diff kept.
BaseModelDiff_get_diff(reg, self) ==
    IF self._diff.computed THEN self._diff
    ELSE [computed |-> TRUE, diff |-> BaseModelDiff_compute(reg, self)]

\* field_diff.as_dict() of one field diff: lines 67-78 and 85 for
\* BaseFieldDiff, 276-277 and 540-552 for TextFieldDiff (the edit script
\* of diff_match_patch is kept as the pair it is computed from), 156-168 for
\* the BaseModelDiff of a foreign key.
FieldDiff_as_dict(reg, fd) ==
    IF fd.util = "BaseModelDiff"
    THEN LET d == BaseModelDiff_as_dict(reg, fd.field1, fd.field2, {})
         IN  IF d.keys = {} THEN NoDiff
             ELSE [kind |-> "model", keys |-> d.keys]
    ELSE IF fd.field1 = fd.field2 THEN NoDiff
    ELSE IF fd.util = "TextFieldDiff"
         THEN [kind |-> "operations", a |-> fd.field1, b |-> fd.field2]
         ELSE [kind |-> "dict", deleted |-> fd.field1, inserted |-> fd.field2]

\* Lines 161-168: as_dict over the field diffs of get_diff; the empty
\* mapping stands for None.
BaseModelDiff_as_dict_of(reg, diff) ==
    LET kept == {n \in DOMAIN diff : FieldDiff_as_dict(reg, diff[n]) # NoDiff}
    IN  [n \in kept |-> FieldDiff_as_dict(reg, diff[n])]

\* The number of calls of each method in a run.
MaxCalls == 2

\* d.get_diff()
GetDiff ==
    /\ modeldiff # NoModelDiff
    /\ Len(modeldiff.got) < MaxCalls
    /\ LET d == BaseModelDiff_get_diff(registry, modeldiff)
       IN  modeldiff' =
             [modeldiff EXCEPT
                !._diff = d,
                !.got = Append(@, d.diff),
                !.after = IF modeldiff.mutated THEN @ + 1 ELSE @,
                !.seen = IF modeldiff._diff.computed THEN @
                         ELSE [model1 |-> modeldiff.model1,
                               model2 |-> modeldiff.model2]]
    /\ UNCHANGED <<live, history, clock, nextPk, nextHid, last, registry,
                   lookup, schema, inst, descriptor, held, io>>

\* d.as_dict()
AsDict ==
    /\ modeldiff # NoModelDiff
    /\ Len(modeldiff.dicts) < MaxCalls
    /\ LET d == BaseModelDiff_get_diff(registry, modeldiff)
       IN  modeldiff' =
             [modeldiff EXCEPT
                !._diff = d,
                !.dicts = Append(@, BaseModelDiff_as_dict_of(registry, d.diff)),
                !.after = IF modeldiff.mutated THEN @ + 1 ELSE @,
                !.seen = IF modeldiff._diff.computed THEN @
                         ELSE [model1 |-> modeldiff.model1,
                               model2 |-> modeldiff.model2]]
    /\ UNCHANGED <<live, history, clock, nextPk, nextHid, last, registry,
                   lookup, schema, inst, descriptor, held, io>>

\* model1.title = title, by the caller that holds model1.
SetTitle(title) ==
    /\ modeldiff # NoModelDiff
    /\ ~modeldiff.mutated
    /\ title # modeldiff.model1.title
    /\ modeldiff' = [modeldiff EXCEPT !.model1.title = title,
                                      !.mutated = TRUE]
    /\ UNCHANGED <<live, history, clock, nextPk, nextHid, last, registry,
                   lookup, schema, inst, descriptor, held, io>>

-----------------------------------------------------------------------------
(* Version instances: historical_record_init and the lookups it installs *)

\* _meta.many_to_many fields whose related model is versioned.
VersionedManyToMany(t) == IF schema.m2m /\ t = "A" THEN {"bs"} ELSE {}

\* get_all_related_objects of a type, restricted to versioned models: the
\* foreign keys of other tracked types that point at it.
RelatedVersioned(t) ==
    IF t = "A"
    THEN {[model |-> "B", field |-> "a", attname |-> "a_id",
           accessor |-> IF schema.one_to_one THEN "b" ELSE "b_set",
           one_to_one |-> schema.one_to_one]}
    ELSE {}

\* VersionedForeignKey.lookup_proper_version: the Version of the referenced
\* row that was current at m's date.  The value is what the attribute gives
\* when it is used (lines 61-62: the lookup is wrapped in a SimpleLazyObject
\* and does not happen when the instance is built).
lookup_proper_version(field, m) ==
    LET candidates == {w \in history : /\ w.type = field.to
                                       /\ w.id = m[attname(field)]
                                       /\ w.history_date <= m.history_date}
    IN  IF candidates = {}
        THEN [status |-> "DoesNotExist"]
        ELSE [status |-> "ok",
              version |-> CHOOSE w \in candidates :
                            \A u \in candidates :
                                u.history_date <= w.history_date]

\* A wrapping that never installs the looked-up Version.
_wrap_foreign_keys_unwrapped(m) == m

\* Lines 89-97.  The instance is a record of the Version row m.hm and the
\* attributes set on it.
_wrap_foreign_keys(m) ==
    LET fs == Fields(m.hm.type)
        versioned == {i \in DOMAIN fs : fs[i].class = "VersionedForeignKey"}
        set == [n \in {fs[i].name : i \in versioned} |->
                  LET i == CHOOSE j \in versioned : fs[j].name = n
                  IN  lookup_proper_version(fs[i], m.hm)]
    IN  IF VersionedManyToMany(m.hm.type) # {}
        THEN [m EXCEPT !.fk = set, !.raised = "TypeError"]
        ELSE [m EXCEPT !.fk = set]

\* Lines 106-126.
_reverse_set_lookup(m, rel_o) ==
    LET as_of == m.history_date
        qs == {w \in history : /\ w.type = rel_o.model
                               /\ w.history_date <= as_of
                               /\ w[rel_o.attname] = m.id}
        parent_pks == {w.id : w \in qs}
        history_ids ==
            {Max({w.history_id : w \in {x \in qs : x.id = pk}}) :
                pk \in parent_pks}
    IN  {w \in history : w.type = rel_o.model /\ w.history_id \in history_ids}

\* A SimpleLazyObject that was not used yet: nothing wrapped, no lookup
\* run.  reads and first keep the number of reads and what the first read
\* gave.
Unevaluated ==
    [evaluated |-> FALSE, _wrapped |-> {}, lookups |-> 0, reads |-> 0,
     first |-> [raised |-> "none", value |-> {}]]

\* A wrapping that runs the one-to-many lookups when the instance is built.
_wrap_reverse_lookups_eager(m) ==
    [m EXCEPT !.reverse =
        [acc \in {o.accessor : o \in RelatedVersioned(m.hm.type)} |->
            LET rel_o == CHOOSE o \in RelatedVersioned(m.hm.type) :
                             o.accessor = acc
            IN  [Unevaluated EXCEPT
                    !.evaluated = TRUE, !.lookups = 1,
                    !._wrapped = IF rel_o.one_to_one THEN {}
                                 ELSE _reverse_set_lookup(m.hm, rel_o)]]]

\* Lines 141-153: one unevaluated SimpleLazyObject per reverse accessor.
_wrap_reverse_lookups(m) ==
    [m EXCEPT !.reverse =
        [acc \in {o.accessor : o \in RelatedVersioned(m.hm.type)} |->
            Unevaluated]]

\* Lines 47-54.  hm holds the attributes the instance gets from its row,
\* extra the attributes set on it later.
historical_record_init(hm) ==
    LET m0 == [hm |-> hm, fk |-> <<>>, reverse |-> <<>>, raised |-> "none",
               extra |-> <<>>]
        m1 == _wrap_foreign_keys(m0)
    IN  IF m1.raised # "none" THEN m1 ELSE _wrap_reverse_lookups(m1)

\* A count of the Versions at or after the date instead of up to it.
version_number_of_gte(hm) ==
    Cardinality({v \in HistoryOf(history, _object(hm)) :
                    v.history_date >= hm.history_date})

\* Lines 224-236.
version_number_of(hm) ==
    LET date == hm.history_date
        obj == _object(hm)
    IN  Cardinality({v \in HistoryOf(history, obj) : v.history_date <= date})

-----------------------------------------------------------------------------
(* revert_to *)

\* A reconstruction that keeps the primary key of the snapshot.
reconcile_pk_snapshot(m) == {m.id}

\* Lines 203-208: the primary keys the reconstructed instance may carry after
\* the lookup of a live row with its unique fields (ms[0] of an unordered
\* queryset is any of its rows).
reconcile_pk(m) ==
    LET unique_fields == unique_fields_of(m)
        ms == IF DOMAIN unique_fields # {}
              THEN objects_filter(m.type, unique_fields)
              ELSE {}
    IN  IF ms # {} THEN {r.id : r \in ms} ELSE {m.id}

\* A filter that takes the Version reverted to with the newer ones.
newer_gte(m, hm) ==
    {v \in HistoryOf(history, m) : v.history_date >= hm.history_date}

\* Line 211: m.history.filter(history_info__date__gt=hm.history_info.date)
newer(m, hm) ==
    {v \in HistoryOf(history, m) : v.history_date > hm.history_date}

\* A pruning step that does not look at delete_newer_versions.
after_prune_always(m, hm, delete_newer_versions) == history \ newer(m, hm)

\* Lines 210-213: the Versions left by the pruning step; v.delete with
\* track_changes=False records nothing.
after_prune(m, hm, delete_newer_versions) ==
    IF delete_newer_versions THEN history \ newer(m, hm) ELSE history

\* A revert that never takes the delete path.
reverts_by_delete_never(hm) == FALSE

\* Line 217: whether the revert takes the delete path.
reverts_by_delete(hm) == hm.history_type = TYPE_DELETED

\* A revert that hands no reverted_to_version on.
reverted_to_version_none(hm) == None

\* Lines 220 and 222: the reverted_to_version handed to delete and to save.
reverted_to_version(hm) == hm.history_id

\* Lines 220 and 222: whether the call logs a Version.  Only save is handed
\* **kws, and with it track_changes; delete is not.
logs_revert(hm, track_changes) ==
    IF reverts_by_delete(hm) THEN TRUE ELSE track_changes


RevertTo(hm, delete_newer_versions, track_changes) ==
    /\ clock <= MaxClock
    /\ hm \in history
    /\ \E pk \in reconcile_pk(_object(hm)) :
         LET m == [_object(hm) EXCEPT !.id = pk]
             kept == after_prune(m, hm, delete_newer_versions)
             rev == reverted_to_version(hm)
             deleted == DeleteVersions(live, m, rev, nextHid, clock)
             saved == create_historical_record(
                          m, SaveType(live, m, TYPE_REVERTED), rev,
                          nextHid, clock)
         IN  IF reverts_by_delete(hm)
             THEN /\ live' = DeleteRows(live, m)
                  /\ history' = kept \cup deleted
                  /\ nextHid' = nextHid + Cardinality(deleted)
                  /\ clock' = clock + Cardinality(deleted)
                  /\ last' = Last("revert", hm.history_id,
                                  delete_newer_versions, track_changes,
                                  m.id, Cardinality(history \ kept), "ok")
             ELSE IF UniqueViolation(live, m)
             THEN /\ live' = live
                  /\ history' = kept
                  /\ nextHid' = nextHid
                  /\ clock' = clock + 1
                  /\ last' = Last("revert", hm.history_id,
                                  delete_newer_versions, track_changes,
                                  m.id, Cardinality(history \ kept),
                                  "IntegrityError")
             ELSE /\ live' = SaveRows(live, m)
                  /\ history' = IF logs_revert(hm, track_changes)
                                THEN kept \cup {saved} ELSE kept
                  /\ nextHid' = IF logs_revert(hm, track_changes)
                                THEN nextHid + 1 ELSE nextHid
                  /\ clock' = clock + 1
                  /\ last' = Last("revert", hm.history_id,
                                  delete_newer_versions, track_changes,
                                  m.id, Cardinality(history \ kept), "ok")
    /\ UNCHANGED <<nextPk, registry, lookup>>
    /\ UNCHANGED instVars

-----------------------------------------------------------------------------
(* Version instances in use: construction, history_info, reverse accessors *)

NoFacade == [type |-> "none", owner |-> 0]

Ok == [raised |-> "none"]

NoOp == [n |-> 0, op |-> "none", slot |-> 0, name |-> "none", result |-> Ok]

\* The record of an operation on a Version instance: the instance it
\* reached, the name it was given and what it returned or raised.
Op(op, slot, name, result) ==
    [n |-> io.n + 1, op |-> op, slot |-> slot, name |-> name,
     result |-> result]

\* The names history_info is used with, and the values written through it.
InfoNames == {"date", "type", "comment"}

InfoValues(name) == IF name = "type" THEN {TYPE_UPDATED} ELSE {0}

\* Lines 245 and 254: 'history_%s' % name
history_(name) == "history_" \o name

\* hasattr, getattr and setattr on a Version instance.
hasattr(m, attr) == attr \in DOMAIN m.hm \/ attr \in DOMAIN m.extra

getattr(m, attr) == IF attr \in DOMAIN m.hm THEN m.hm[attr] ELSE m.extra[attr]

setattr(m, attr, val) ==
    IF attr \in DOMAIN m.hm
    THEN [m EXCEPT !.hm[attr] = val]
    ELSE [m EXCEPT !.extra = [a \in DOMAIN m.extra \cup {attr} |->
                                IF a = attr THEN val ELSE m.extra[a]]]

\* Lines 239-241: HistoricalMetaInfo.__get__.  The class attribute
\* history_info of a history class is one object; each access through an
\* instance stores that instance in it and returns it.
HistoricalMetaInfo_get(instance) ==
    [descriptor EXCEPT ![inst[instance].hm.type] = instance]

\* Lines 243-247: HistoricalMetaInfo.__getattr__, for self.instance = i.
HistoricalMetaInfo_getattr(i, name) ==
    IF hasattr(inst[i], history_(name))
    THEN [raised |-> "none", value |-> getattr(inst[i], history_(name))]
    ELSE [raised |-> "AttributeError"]

\* Lines 249-256: HistoricalMetaInfo.__setattr__, for self.instance = i.
\* The __setattr__ of a model instance sets any attribute, present or not.
HistoricalMetaInfo_setattr(i, name, val) ==
    [inst EXCEPT ![i] = setattr(@, history_(name), val)]

\* HistoricalRecord(...): lines 47-54 run on the Version row hm.  Line 97
\* raises before the instance is handed out; line 141 reads m.history_info.
Construct(slot, hm) ==
    /\ io.n < MaxOps
    /\ hm \in history
    /\ slot \notin DOMAIN inst
    /\ LET m == historical_record_init(hm)
       IN  IF m.raised # "none"
           THEN /\ UNCHANGED <<inst, descriptor>>
                /\ io' = Op("construct", slot, "none", [raised |-> m.raised])
           ELSE /\ inst' = [s \in DOMAIN inst \cup {slot} |->
                               IF s = slot THEN m ELSE inst[s]]
                /\ descriptor' = [descriptor EXCEPT ![hm.type] = slot]
                /\ io' = Op("construct", slot, "none", Ok)
    /\ UNCHANGED <<live, history, clock, nextPk, nextHid, last, registry,
                   lookup, schema, held, modeldiff>>

\* x.history_info; with keep the caller holds on to the object it got.
HistoryInfo(slot, keep) ==
    /\ io.n < MaxOps
    /\ slot \in DOMAIN inst
    /\ descriptor' = HistoricalMetaInfo_get(slot)
    /\ held' = IF keep THEN [type |-> inst[slot].hm.type, owner |-> slot]
               ELSE held
    /\ io' = Op("history_info", slot, "none", Ok)
    /\ UNCHANGED <<live, history, clock, nextPk, nextHid, last, registry,
                   lookup, schema, inst, modeldiff>>

\* info.name, on the object the caller holds.
InfoGet(name) ==
    /\ io.n < MaxOps
    /\ held # NoFacade
    /\ LET i == descriptor[held.type]
       IN  io' = Op("get", i, name, HistoricalMetaInfo_getattr(i, name))
    /\ UNCHANGED <<live, history, clock, nextPk, nextHid, last, registry,
                   lookup, schema, inst, descriptor, held, modeldiff>>

\* info.name = val, on the object the caller holds.
InfoSet(name, val) ==
    /\ io.n < MaxOps
    /\ held # NoFacade
    /\ LET i == descriptor[held.type]
       IN  /\ inst' = HistoricalMetaInfo_setattr(i, name, val)
           /\ io' = Op("set", i, name, Ok)
    /\ UNCHANGED <<live, history, clock, nextPk, nextHid, last, registry,
                   lookup, schema, descriptor, held, modeldiff>>

\* A one-to-one lookup that gives an empty result instead of raising.
_reverse_attr_lookup_or_none(m, rel_o) ==
    LET qs == {w \in history : /\ w.type = rel_o.model
                               /\ w.history_date <= m.history_date
                               /\ w[rel_o.attname] = m.id}
    IN  IF qs = {} THEN {[raised |-> "none", value |-> {}]}
        ELSE {[raised |-> "none", value |-> {w}] : w \in qs}

\* Lines 128-139: the outcomes of the one-to-one lookup.  [0] of a queryset
\* without order_by is any of its rows, and raises IndexError without rows.
_reverse_attr_lookup(m, rel_o) ==
    LET as_of == m.history_date
        qs == {w \in history : /\ w.type = rel_o.model
                               /\ w.history_date <= as_of
                               /\ w[rel_o.attname] = m.id}
    IN  IF qs = {} THEN {[raised |-> "IndexError"]}
        ELSE {[raised |-> "none", value |-> {w}] : w \in qs}

\* Lines 148-152: the lookup behind the accessor of rel_o.
_proper_reverse_lookup(m, rel_o) ==
    IF rel_o.one_to_one
    THEN _reverse_attr_lookup(m, rel_o)
    ELSE {[raised |-> "none", value |-> _reverse_set_lookup(m, rel_o)]}

\* A read of the reverse accessor acc of the instance in slot.  A
\* SimpleLazyObject runs its function when it is used and holds nothing
\* yet; what the function returns it keeps, what it raises is not kept.
ReadReverse(slot, acc) ==
    /\ io.n < MaxOps
    /\ slot \in DOMAIN inst
    /\ acc \in DOMAIN inst[slot].reverse
    /\ LET m == inst[slot]
           cell == m.reverse[acc]
           rel_o == CHOOSE o \in RelatedVersioned(m.hm.type) :
                        o.accessor = acc
           outcomes == IF cell.evaluated
                       THEN {[raised |-> "none", value |-> cell._wrapped]}
                       ELSE _proper_reverse_lookup(m.hm, rel_o)
       IN  \E out \in outcomes :
             LET ran == IF cell.evaluated THEN 0 ELSE 1
                 new == [evaluated |-> cell.evaluated \/ out.raised = "none",
                         _wrapped |-> IF out.raised = "none" THEN out.value
                                      ELSE {},
                         lookups |-> cell.lookups + ran,
                         reads |-> cell.reads + 1,
                         first |-> IF cell.reads = 0
                                   THEN [raised |-> out.raised,
                                         value |-> IF out.raised = "none"
                                                   THEN out.value ELSE {}]
                                   ELSE cell.first]
             IN  /\ inst' = [inst EXCEPT ![slot].reverse[acc] = new]
                 /\ descriptor' = IF ran = 1 THEN HistoricalMetaInfo_get(slot)
                                  ELSE descriptor
                 /\ io' = Op("read", slot, acc,
                             [raised |-> out.raised,
                              value |-> IF out.raised = "none"
                                        THEN out.value ELSE {}])
    /\ UNCHANGED <<live, history, clock, nextPk, nextHid, last, registry,
                   lookup, schema, held, modeldiff>>

-----------------------------------------------------------------------------
Init ==
    /\ live = {}
    /\ history = {}
    /\ clock = 1
    /\ nextPk = [t \in Types |-> 1]
    /\ nextHid = 1
    /\ last = Last("init", 0, FALSE, TRUE, 0, 0, "ok")
    /\ registry = BuiltinRegistry
    /\ lookup = NoLookup
    /\ schema = [one_to_one |-> FALSE, m2m |-> FALSE]
    /\ inst = <<>>
    /\ descriptor = [t \in Types |-> 0]
    /\ held = NoFacade
    /\ io = NoOp
    /\ modeldiff = NoModelDiff

LiveIds(t) == {r.id : r \in {x \in live : x.type = t}}

FkChoices(t) == IF t = "B" THEN LiveIds("A") ELSE {None}

Next ==
    \/ \E t \in Types : \E name \in Names[t] : \E title \in Titles :
         \E a \in FkChoices(t) : Create(t, name, title, a)
    \/ \E r \in live : \E title \in Titles : \E a \in FkChoices(r.type) :
         Change(r, title, a)
    \/ \E r \in live : Delete(r)
    \/ \E hm \in history : \E dnv \in BOOLEAN : \E track \in BOOLEAN :
         RevertTo(hm, dnv, track)

Spec == Init /\ [][Next]_vars

\* The registry on its own: registrations and lookups in any order.
NextRegistry ==
    \/ \E c \in RegisterClasses : \E u \in DiffUtils : Register(c, u)
    \/ \E c \in Classes : GetDiffUtil(c)

RegistrySpec == Init /\ [][NextRegistry]_vars

\* The store as Init leaves it, with the types declared as sch says.
InitDeclared(sch) ==
    /\ live = {}
    /\ history = {}
    /\ clock = 1
    /\ nextPk = [t \in Types |-> 1]
    /\ nextHid = 1
    /\ last = Last("init", 0, FALSE, TRUE, 0, 0, "ok")
    /\ registry = BuiltinRegistry
    /\ lookup = NoLookup
    /\ schema = sch
    /\ inst = <<>>
    /\ descriptor = [t \in Types |-> 0]
    /\ held = NoFacade
    /\ io = NoOp
    /\ modeldiff = NoModelDiff

\* The store with B.a declared as a OneToOneField.
InitOneToOne == InitDeclared([one_to_one |-> TRUE, m2m |-> FALSE])

OneToOneSpec == InitOneToOne /\ [][Next]_vars

\* The model diff on its own.  The store holds two rows of A, each with the
\* Version of its creation; the instances compared are rows of one type,
\* saved or not, whose foreign key references a row of the store.
DiffStore ==
    {Row("A", 1, "a1", "Home", None), Row("A", 2, "a2", "Home", None)}

DiffInstances(t) ==
    IF t = "A"
    THEN {Row("A", id, name, title, None) :
            id \in {1, 2}, name \in {"a1", "a2"}, title \in Titles}
    ELSE {Row("B", 1, name, title, a) :
            name \in Names["B"], title \in Titles, a \in {1, 2}}

Plain(name) == [name |-> name, diff_class |-> ""]

DiffFields(t) ==
    {[given |-> FALSE, list |-> <<>>],
     [given |-> TRUE, list |-> <<>>],
     [given |-> TRUE, list |-> <<Plain("title")>>],
     [given |-> TRUE, list |-> <<Plain("id"), Plain("name")>>],
     [given |-> TRUE,
      list |-> <<Plain("name"),
                 [name |-> "title", diff_class |-> "BaseFieldDiff"]>>]}
    \cup IF t = "B"
         THEN {[given |-> TRUE, list |-> <<Plain("a"), Plain("title")>>]}
         ELSE {}

DiffExcludes == {{}, {"title"}, {"name", "a"}}

InitDiff ==
    /\ live = DiffStore
    /\ history = {create_historical_record(r, TYPE_ADDED, None, r.id, r.id) :
                    r \in DiffStore}
    /\ clock = 3
    /\ nextPk = [t \in Types |-> IF t = "A" THEN 3 ELSE 1]
    /\ nextHid = 3
    /\ last = Last("init", 0, FALSE, TRUE, 0, 0, "ok")
    /\ registry = BuiltinRegistry
    /\ lookup = NoLookup
    /\ schema = [one_to_one |-> FALSE, m2m |-> FALSE]
    /\ inst = <<>>
    /\ descriptor = [t \in Types |-> 0]
    /\ held = NoFacade
    /\ io = NoOp
    /\ \E t \in Types : \E model1, model2 \in DiffInstances(t) :
         \E fields \in DiffFields(t) : \E excludes \in DiffExcludes :
            modeldiff = BaseModelDiff___init__(model1, model2, fields,
                                               excludes)

NextDiff ==
    \/ GetDiff
    \/ AsDict
    \/ \E title \in Titles : SetTitle(title)

DiffSpec == InitDiff /\ [][NextDiff]_vars

\* Version instances and their history_info: a few writes to the store,
\* then instances are built and used.
InfoClock == 2

InitInfo == \E m2m \in BOOLEAN :
                InitDeclared([one_to_one |-> FALSE, m2m |-> m2m])

NextInfo ==
    \/ /\ io.n = 0 /\ clock <= InfoClock
       /\ \E t \in Types : \E name \in Names[t] : \E title \in Titles :
            \E a \in FkChoices(t) : Create(t, name, title, a)
    \/ /\ io.n = 0 /\ clock <= InfoClock
       /\ \E r \in live : \E title \in Titles : \E a \in FkChoices(r.type) :
            Change(r, title, a)
    \/ \E slot \in Slots : \E hm \in history : Construct(slot, hm)
    \/ \E slot \in Slots : \E keep \in BOOLEAN : HistoryInfo(slot, keep)
    \/ \E name \in InfoNames : InfoGet(name)
    \/ \E name \in InfoNames : \E val \in InfoValues(name) :
         InfoSet(name, val)

InfoSpec == InitInfo /\ [][NextInfo]_vars

\* Reverse accessors: the store runs as in Spec, with tracked reverts;
\* Versions of A are built in one slot and their accessors read.
MaxReads == 3

InitLazy == \E o2o \in BOOLEAN :
                InitDeclared([one_to_one |-> o2o, m2m |-> FALSE])

NextLazy ==
    \/ \E t \in Types : \E name \in Names[t] : \E a \in FkChoices(t) :
         Create(t, name, "Home", a)
    \/ \E r \in live : \E title \in Titles : \E a \in FkChoices(r.type) :
         Change(r, title, a)
    \/ \E r \in live : Delete(r)
    \/ \E hm \in history : RevertTo(hm, TRUE, TRUE)
    \/ /\ io.n < MaxReads
       /\ \E hm \in history : hm.type = "A" /\ Construct(1, hm)
    \/ /\ io.n < MaxReads
       /\ \E acc \in {"b", "b_set"} : ReadReverse(1, acc)

LazySpec == InitLazy /\ [][NextLazy]_vars
-----------------------------------------------------------------------------
(* Properties *)

SameEntity(v, w) ==
    v.type = w.type /\ \A f \in UniqueFields(v.type) : v[f] = w[f]

\* The Versions of type t with pk id that were written up to date.
VersionsAsOf(t, id, date) ==
    {w \in history : w.type = t /\ w.id = id /\ w.history_date <= date}

C1_ErrorCaseReached ==
    \E v \in history :
        v.type = "B" /\ VersionsAsOf("A", v.a_id, v.history_date) = {}

\* C2: the reverse accessor of a Version V of A returns at most one Version
\* per B identity, each the greatest-history-id Version of that identity
\* among those with timestamp <= V's timestamp.
C2_ReverseSetOnePerIdentity ==
    \A v \in history : \A rel_o \in RelatedVersioned(v.type) :
        LET result == _reverse_set_lookup(v, rel_o)
        IN  /\ \A x, y \in result : SameEntity(x, y) => x = y
            /\ \A x \in result : \A u \in history :
                 (SameEntity(u, x) /\ u.history_date <= v.history_date)
                    => u.history_id <= x.history_id

\* C7: the Versions of an entity ordered by timestamp have strictly
\* increasing version numbers, and no two of them share a version number.
C7_VersionNumbersIncrease ==
    \A v, w \in history :
        (SameEntity(v, w) /\ v # w) =>
            /\ version_number_of(v) # version_number_of(w)
            /\ v.history_date < w.history_date
                 => version_number_of(v) < version_number_of(w)

\* C7 witness: an entity with three Versions left after a pruning revert,
\* whose primary key has cycled.
C7_Witness ==
    /\ last.op = "revert" /\ last.dnv
    /\ \E v \in history :
         /\ Cardinality({w \in history : SameEntity(v, w)}) >= 3
         /\ \E w \in history : SameEntity(v, w) /\ w.id # v.id
\* The step is a call of revert_to; Target is the Version it was called on.
RevertStep == last'.op = "revert"

Target == CHOOSE v \in history : v.history_id = last'.hid

NewVersions == history' \ history

NewOfEntity(V) == {n \in NewVersions : SameEntity(n, V)}

LiveOfEntity(L, V) ==
    {r \in L : r.type = V.type /\ \A f \in UniqueFields(V.type) : r[f] = V[f]}

\* C3 as claimed: every call of revert_to, whatever the change type and the
\* flags, appends exactly one Version to the entity's history, and that
\* Version's history_reverted_to_version refers to V.
C3_EveryRevertAppendsOne ==
    [][RevertStep =>
        \E n \in NewVersions :
            /\ NewOfEntity(Target) = {n}
            /\ n.history_reverted_to_version = Target.history_id]_vars

\* C3 as amended: every call of revert_to that is not passed
\* track_changes=False appends exactly one Version to the entity's history,
\* and that Version's history_reverted_to_version refers to V.
C3_TrackedRevertAppendsOne ==
    [][(RevertStep /\ last'.track) =>
        \E n \in NewVersions :
            /\ NewOfEntity(Target) = {n}
            /\ n.history_reverted_to_version = Target.history_id]_vars

\* C3 witness: a tracked pruning revert has removed Versions and left the
\* one Version that refers to the Version reverted to.
C3_Witness ==
    /\ last.op = "revert" /\ last.track /\ last.dnv /\ last.pruned >= 2
    /\ \E n \in history : n.history_reverted_to_version = last.hid

UniqueLive(L) ==
    \A r1, r2 \in L :
        (r1.type = r2.type
           /\ \A f \in UniqueFields(r1.type) : r1[f] = r2[f]) => r1 = r2

\* C5: no two live rows of a type share their unique fields, and a revert
\* to a Version V whose unique fields match a live row ends without a
\* uniqueness error, is carried out on the pk of that row, and does not
\* let the number of live rows grow.
C5_RevertKeepsUnique ==
    [][/\ UniqueLive(live')
       /\ RevertStep =>
            LET matched == LiveOfEntity(live, Target)
            IN  matched # {} =>
                  /\ last'.result = "ok"
                  /\ last'.pk \in {r.id : r \in matched}
                  /\ Cardinality(live') <= Cardinality(live)
                  /\ \A r \in LiveOfEntity(live', Target) :
                        r.id = last'.pk]_vars

\* C5 witness: a revert to a Version written under an older primary key
\* was carried out on the primary key of the live row.
C5_Witness ==
    /\ last.op = "revert"
    /\ \E V \in history :
         /\ V.history_id = last.hid
         /\ V.history_type # TYPE_DELETED
         /\ V.id # last.pk
         /\ \E r \in LiveOfEntity(live, V) : r.id = last.pk

\* C6: after revert_to(delete_newer_versions=True) on V the entity's history
\* holds no Version newer than V but the one recorded for the revert, every
\* Version with timestamp <= V's timestamp is still there unchanged, and no
\* Version was recorded for the prunings.
C6_PruneNewer ==
    [][(RevertStep /\ last'.dnv) =>
        LET V == Target
        IN  /\ \A w \in history' :
                 (SameEntity(w, V) /\ w.history_date > V.history_date) =>
                    /\ w \in NewVersions
                    /\ w.history_reverted_to_version = V.history_id
            /\ Cardinality(NewOfEntity(V)) <= 1
            /\ \A w \in history :
                 w.history_date <= V.history_date => w \in history'
            /\ \A w \in history : \A x \in history' :
                 w.history_id = x.history_id => w = x]_vars

\* C6 witness: a pruning revert has removed Versions written under another
\* primary key than the Version reverted to.
C6_Witness ==
    /\ last.op = "revert" /\ last.dnv /\ last.pruned >= 2
    /\ \E V \in history :
         /\ V.history_id = last.hid
         /\ \A w \in history :
              (SameEntity(w, V) /\ w.history_date > V.history_date) =>
                 w.history_reverted_to_version = V.history_id
         /\ V.id # last.pk

\* The Version a revert was called on and the live row it left.
RevertedTo == CHOOSE v \in history : v.history_id = last.hid

\* C8: after revert_to(V) the diff of the new live state of the entity
\* against V's snapshot is empty: as_dict() is None.
C8_RevertRoundTrip ==
    (last.op = "revert" /\ last.result = "ok"
       /\ RevertedTo.history_type # TYPE_DELETED) =>
        \A r \in LiveOfEntity(live, RevertedTo) :
            diff_as_dict(registry, r, RevertedTo)
                = [raised |-> "none", keys |-> {}]

\* C9 as claimed: each entity mutation (create, update, delete, revert) adds
\* exactly one Version, no stored Version changes, and a stored Version
\* disappears only through the pruning step of
\* revert_to(delete_newer_versions=True).
AppendOnly ==
    /\ \A v \in history :
         \/ v \in history'
         \/ /\ RevertStep /\ last'.dnv
            /\ SameEntity(v, Target)
            /\ v.history_date > Target.history_date
    /\ \A v \in history : \A w \in history' :
         v.history_id = w.history_id => v = w

OneVersionPerDeletedRow ==
    \A r \in live \ live' :
        (\A x \in live' : ~(x.type = r.type /\ x.id = r.id)) =>
            Cardinality({n \in NewVersions :
                            /\ n.type = r.type /\ n.id = r.id
                            /\ n.history_type = TYPE_DELETED}) = 1

C9_AppendOnly ==
    [][/\ AppendOnly
       /\ last'.op \in {"create", "change"} => Cardinality(NewVersions) = 1
       /\ last'.op \in {"delete", "revert"} => OneVersionPerDeletedRow
       /\ RevertStep => Cardinality(NewOfEntity(Target)) = 1]_vars

\* C9 as amended: as claimed, for every mutation but a revert_to that is
\* passed track_changes=False, which may add no Version.
C9_AppendOnlyTracked ==
    [][/\ AppendOnly
       /\ last'.op \in {"create", "change"} => Cardinality(NewVersions) = 1
       /\ last'.op \in {"delete", "revert"} => OneVersionPerDeletedRow
       /\ (RevertStep /\ last'.track) =>
            Cardinality(NewOfEntity(Target)) = 1
       /\ RevertStep => Cardinality(NewOfEntity(Target)) <= 1]_vars

\* C9 witness: a delete of an A row has taken two B rows with it, after a
\* pruning revert left a gap in the history ids.
C9_Witness ==
    /\ last.op = "delete"
    /\ Cardinality({n \in history : n.history_date >= clock - 2
                                    /\ n.history_type = TYPE_DELETED}) >= 2
    /\ \E h \in 1..(nextHid - 1) : \A v \in history : v.history_id # h
\* The rule of C10: the registered util; else the root fallbacks; else the
\* rule applied to the first ancestor; DiffUtilNotFound at the root of the
\* hierarchy.
RECURSIVE C10_Rule(_, _)
C10_Rule(reg, T) ==
    IF T \in DOMAIN reg THEN reg[T]
    ELSE IF T \in {"ForeignKey", "Model"} THEN "BaseModelDiff"
    ELSE IF T = "Field" THEN "BaseFieldDiff"
    ELSE IF T = "object" THEN "DiffUtilNotFound"
    ELSE C10_Rule(reg, Base[T])

\* C10: get_diff_util(T) returns what the rule gives for the registry as it
\* is, fails with DiffUtilNotFound and no other error exactly when the walk
\* reaches the root without a match, and leaves the registry unchanged.
C10_GetDiffUtil ==
    [][lookup'.type \in Classes =>
        /\ lookup'.result = C10_Rule(registry, lookup'.type)
        /\ lookup'.result \in DiffUtils \cup
              {"FileFieldDiff", "ImageFieldDiff", "DiffUtilNotFound"}
        /\ registry' = registry]_vars

\* C17: a revert_to that is passed track_changes=False records no Version
\* for the revert, on the delete path as on the save path.
C17_UntrackedRevertLogsNothing ==
    [][(RevertStep /\ ~last'.track) => NewOfEntity(Target) = {}]_vars

\* The Versions of the identity of x written up to date.
IdentityAsOf(x, date) ==
    {u \in history : SameEntity(u, x) /\ u.history_date <= date}

\* C19: every Version of B that the one-to-many reverse accessor of a
\* Version V of A returns is the latest Version of its B identity with
\* timestamp <= V's timestamp, over all Versions of that identity, and shows
\* a B that existed and referenced V's entity then: a B deleted or
\* re-pointed at or before V's timestamp is not in the result.
C19_ReverseSetAsOf ==
    \A v \in history : \A rel_o \in RelatedVersioned(v.type) :
        \A x \in _reverse_set_lookup(v, rel_o) :
            /\ \A u \in IdentityAsOf(x, v.history_date) :
                 u.history_date <= x.history_date
            /\ x.history_type # TYPE_DELETED
            /\ x[rel_o.attname] = v.id

\* The step is an operation on a Version instance.
InstanceStep == io'.n # io.n

\* The step is a read of a reverse accessor; Cell is the lazy object it
\* reads, before the read and after it.
ReadStep == InstanceStep /\ io'.op = "read"

Cell == inst[io'.slot].reverse[io'.name]

CellAfter == inst'[io'.slot].reverse[io'.name]

\* No lookup was run for an accessor that was never read.
NoLookupBeforeRead(I) ==
    \A s \in DOMAIN I : \A acc \in DOMAIN I[s].reverse :
        I[s].reverse[acc].reads = 0 => I[s].reverse[acc].lookups = 0

\* A read of a lazy object that holds a result runs no lookup and returns
\* what it holds; any read after the first returns what the first gave.
ReadsAreCached ==
    ReadStep =>
        /\ Cell.evaluated =>
              /\ CellAfter.lookups = Cell.lookups
              /\ io'.result = [raised |-> "none", value |-> Cell._wrapped]
        /\ Cell.reads > 0 => io'.result = Cell.first
        /\ CellAfter.lookups <= Cell.lookups + 1

Unreferenced(V) ==
    \A rel_o \in RelatedVersioned(V.type) :
        \A w \in history :
            ~(/\ w.type = rel_o.model
              /\ w[rel_o.attname] = V.id
              /\ w.history_date <= V.history_date)

\* C14: when no Version of B references V's entity with timestamp <= V's
\* timestamp, a read of a one-to-one reverse accessor of V fails with an
\* error and returns nothing, and a read of a one-to-many reverse accessor
\* returns the empty collection without error.
C14_NoneReferencing ==
    [][(ReadStep /\ Unreferenced(inst[io'.slot].hm)) =>
        IF schema.one_to_one
        THEN io'.result.raised # "none" /\ io'.result.value = {}
        ELSE io'.result = [raised |-> "none", value |-> {}]]_vars

\* C14 witness: a read of the one-to-one accessor of a Version that no
\* Version of B references has raised.
C14_Witness ==
    /\ schema.one_to_one
    /\ io.op = "read" /\ io.result.raised = "IndexError"
    /\ Unreferenced(inst[io.slot].hm)
    /\ \E w \in history : w.type = "B"

\* The one-to-many case of C14 is reached too.
C14_EmptySetReached ==
    /\ ~schema.one_to_one
    /\ io.op = "read" /\ io.result = [raised |-> "none", value |-> {}]
    /\ \E w \in history : w.type = "B"

\* C11: reading name N through the history_info obtained from X returns
\* X's history_N attribute (or fails as a read of X does), and writing N
\* through it sets X's history_N attribute and changes no other instance,
\* whatever accesses of history_info on other Versions of the type came in
\* between.
C11_FacadeOfOwner ==
    [][(InstanceStep /\ io'.op \in {"get", "set"}) =>
        LET X == held.owner
        IN  IF io'.op = "get"
            THEN io'.result = HistoricalMetaInfo_getattr(X, io'.name)
            ELSE /\ \E val \in InfoValues(io'.name) :
                      inst'[X] = setattr(inst[X], history_(io'.name), val)
                 /\ \A Y \in DOMAIN inst \ {X} : inst'[Y] = inst[Y]]_vars

\* C12: for a name N for which the Version has no history_N attribute, a
\* read and a write of history_info.N both fail with AttributeError and
\* leave every attribute of the Version as it was.  (Stated for a
\* history_info that still refers to the Version it was obtained from.)
C12_UnknownNameFails ==
    [][(/\ InstanceStep /\ io'.op \in {"get", "set"}
        /\ descriptor[held.type] = held.owner
        /\ ~hasattr(inst[held.owner], history_(io'.name))) =>
            /\ io'.result.raised = "AttributeError"
            /\ inst' = inst]_vars

\* C18: the construction of a Version instance completes, and when it
\* returns the versioned foreign keys are wrapped and the reverse accessors
\* are installed, however the tracked type is declared.
C18_ConstructionWraps ==
    [][(InstanceStep /\ io'.op = "construct") =>
        /\ io'.result.raised = "none"
        /\ io'.slot \in DOMAIN inst'
        /\ LET m == inst'[io'.slot]
               fs == Fields(m.hm.type)
           IN  /\ DOMAIN m.fk =
                    {fs[i].name : i \in {j \in DOMAIN fs :
                        fs[j].class = "VersionedForeignKey"}}
               /\ DOMAIN m.reverse =
                    {o.accessor : o \in RelatedVersioned(m.hm.type)}]_vars

\* C15: a revert_to of which a step fails leaves the stored history and the
\* live rows exactly as they were before the call; no state is reached in
\* which newer Versions were pruned and the revert then failed.
C15_RevertAtomic ==
    [][(RevertStep /\ last'.result # "ok") =>
        /\ history' = history
        /\ live' = live
        /\ last'.pruned = 0]_vars

\* The field names a BaseModelDiff is configured to compare, as C16 states
\* them: the configured field list, or by default all fields, minus the
\* auto-generated and the excluded ones.
ConfiguredNames(self) ==
    IF self.fields.given
    THEN {self.fields.list[i].name : i \in DOMAIN self.fields.list}
    ELSE {Fields(self.model1.type)[i].name :
            i \in DOMAIN Fields(self.model1.type)}

\* The same, with an empty field list read as no field list.
ConfiguredNamesOrAll(self) ==
    IF self.fields.given /\ self.fields.list # <<>>
    THEN {self.fields.list[i].name : i \in DOMAIN self.fields.list}
    ELSE {Fields(self.model1.type)[i].name :
            i \in DOMAIN Fields(self.model1.type)}

\* The strategy of a field: the class configured for it, else the one the
\* registry gives for the field's class.
StrategyOf(self, n) ==
    LET entries == {i \in DOMAIN self.fields.list :
                      self.fields.list[i].name = n}
        configured == IF self.fields.given /\ entries # {}
                      THEN self.fields.list[Max(entries)].diff_class
                      ELSE ""
    IN  IF configured # "" THEN configured
        ELSE get_diff_util(registry, get_field(self.model1.type, n).class)

\* The mapping as_dict is to return for the names compared: the fields
\* among them whose two values differ, each with its strategy's diff.
ExpectedDict(self, names) ==
    LET t == self.model1.type
        compared == {n \in names :
                        /\ get_field(t, n).class # "AutoField"
                        /\ n \notin self.excludes}
        v1(n) == FieldValue(self.seen.model1, get_field(t, n)).value
        v2(n) == FieldValue(self.seen.model2, get_field(t, n)).value
    IN  [n \in {x \in compared : v1(x) # v2(x)} |->
            FieldDiff_as_dict(registry,
                [util |-> StrategyOf(self, n),
                 field1 |-> v1(n), field2 |-> v2(n)])]

====
